---- MODULE Spec2Model ----
(***************************************************************************)
(* Model of the browser-automation verification scripts in                 *)
(* jules-scratch/verification.  Every script is one scenario: it enters a  *)
(* `with sync_playwright()` block, launches a browser, opens a page, loads *)
(* the showcase document, performs its interactions and assertions in      *)
(* program order, takes one screenshot and closes the browser.  An         *)
(* exception raised by any call propagates out of main(): the `with` block *)
(* is left and the interpreter exits with code 1 and a traceback.          *)
(*                                                                         *)
(* The showcase document (basecoat-clone-ui/index.html) is not part of the *)
(* sources; its behaviour is modelled from the specification and is kept   *)
(* as general as the specification leaves it.                              *)
(***************************************************************************)
EXTENDS Naturals, Sequences, FiniteSets

VARIABLES
    animated,    \* the document fades closed overlays out (transition duration > 0)
    order,       \* the scripts invoked in this session, in invocation order
    phase,       \* 1: the order as given, 2: the same scripts in reverse order
    idx,         \* position in order of the script being run
    status,      \* "idle", "running", "failed", "released", "exited"
    pc,          \* index in Steps(script) of the statement to execute next
    polls,       \* polls already taken by the assertion at pc
    done,        \* source lines of the statements completed in this run
    failedAt,    \* 0, or the index of the statement that raised
    playwright,  \* the sync_playwright() driver is running
    browser,     \* number of open browsers
    doc,         \* state of the document in the page the script drives
    written,     \* paths written during this run, each with the pc it was written at
    files,       \* the artifact files on disk: path -> capture
    exitCode,    \* exit code of the process of this run, "none" while it runs
    diag,        \* source line named by the traceback, 0 if none
    okPolls,     \* the opacity assertions that succeeded in this run: the source
                 \* line, the polls that had failed before, the opacity polled
    captured,    \* the scripts that took their screenshot in this phase
    filesFirst,  \* the files left by phase 1
    capturedFirst \* the scripts that captured in phase 1

vars == <<animated, order, phase, idx, status, pc, polls, done, failedAt,
          playwright, browser, doc, written, files, exitCode, diag, okPolls,
          captured, filesFirst, capturedFirst>>

\* Retries of a polling assertion before it times out.
MaxPolls == 2
Scripts ==
    {"components", "all_components", "display", "full_library", "final",
     "final_v2", "final_v3", "layout", "structure"}

\* One statement of a script.
St(op, el, line) == [op |-> op, el |-> el, line |-> line]

Prologue(l1, l2, l3) ==
    <<St("launch", "", l1), St("new_page", "", l2), St("goto", "index.html", l3)>>

Viewport(height, line) == <<St("viewport", height, line)>>

Epilogue(path, l1, l2) == <<St("screenshot", path, l1), St("close", "", l2)>>

StepsComponents ==
    Prologue(6, 7, 10)
    \o <<St("wait", "1000", 12)>>
    \o Epilogue("verification.png", 13, 14)

StepsAllComponents ==
    Prologue(6, 7, 13) \o Viewport("3200", 16)
    \o <<St("visible", "heading:Button", 19),
         St("visible", "heading:Accordion", 20),
         St("visible", "heading:Dialog", 21),
         St("visible", "heading:Tooltip", 22),
         St("visible", "heading:Toast", 23),
         St("visible", "heading:Card", 24),
         St("visible", "heading:Forms", 26),
         St("visible", "heading:Advanced Forms & Inputs", 28),
         St("visible", "heading:Alert", 29),
         St("visible", "heading:Avatar", 30),
         St("visible", "heading:Badge", 31),
         St("visible", "select-trigger", 37),
         St("click", "select-trigger", 38),
         St("visible", "select-popover", 39)>>
    \o Epilogue("verification_full_library.png", 42, 44)

StepsDisplay ==
    Prologue(6, 7, 13) \o Viewport("2000", 16)
    \o <<St("visible", "alert", 20),
         St("visible", "alert>heading:Alert Title", 21),
         St("visible", "img:User Avatar", 25),
         St("visible", "text:CN", 27),
         St("visible", "text:Default", 31),
         St("visible", "text:Primary", 32)>>
    \o Epilogue("verification_display.png", 36, 38)

StepsFullLibrary ==
    Prologue(6, 7, 13) \o Viewport("4000", 16)
    \o <<St("click", "button:Open Dialog", 21),
         St("visible", "dialog", 23),
         St("visible", "dialog>heading:Dialog Title", 24),
         St("click", "dialog>button:Close", 25),
         St("not_visible", "dialog", 26),
         St("hover", "button:Hover me", 29),
         St("visible", "tooltip", 30),
         St("click", "button:Show Toast", 33),
         St("visible", "toast", 34),
         St("click", "select-trigger", 38),
         St("visible", "select-popover", 40),
         St("click", "select-popover>text:Apple", 43),
         St("visible", "select-trigger>text:Apple", 44),
         St("not_visible", "select-popover", 45),
         St("visible", "resizable", 48)>>
    \o Epilogue("verification_final.png", 52, 54)

StepsFinal ==
    Prologue(6, 7, 10) \o Viewport("4000", 11)
    \o <<St("click", "button:Open Dialog", 16),
         St("visible", "dialog", 18),
         St("click", "dialog>button:Close", 19),
         St("not_visible", "dialog", 20),
         St("hover", "button:Hover me", 23),
         St("visible", "tooltip", 24),
         St("hover", "heading:Component Showcase", 26),
         St("not_visible", "tooltip", 27),
         St("click", "button:Show Toast", 30),
         St("visible", "toast", 31),
         St("click", "select-trigger", 35),
         St("visible", "select-popover", 37),
         St("click", "heading:Component Showcase", 39),
         St("not_visible", "select-popover", 40),
         St("wait", "1000", 44)>>
    \o Epilogue("verification_final.png", 45, 47)

StepsFinalV2 ==
    Prologue(6, 7, 10) \o Viewport("4000", 11)
    \o <<St("click", "button:Open Dialog", 16),
         St("visible", "dialog", 18),
         St("click", "dialog>button:Close", 19),
         St("not_visible", "dialog", 20),
         St("hover", "button:Hover me", 23),
         St("visible", "tooltip", 25),
         St("hover", "heading:Component Showcase", 27),
         St("wait", "200", 28),
         St("not_visible", "tooltip", 29),
         St("click", "button:Show Toast", 32),
         St("visible", "toast", 33),
         St("click", "select-trigger", 37),
         St("visible", "select-popover", 39),
         St("click", "heading:Component Showcase", 41),
         St("wait", "200", 42),
         St("not_visible", "select-popover", 43),
         St("wait", "1000", 47)>>
    \o Epilogue("verification_final.png", 48, 50)

StepsFinalV3 ==
    Prologue(6, 7, 10) \o Viewport("4000", 11)
    \o <<St("click", "button:Open Dialog", 16),
         St("visible", "dialog", 18),
         St("click", "dialog>button:Close", 19),
         St("not_visible", "dialog", 20),
         St("hover", "button:Hover me", 25),
         St("visible", "tooltip", 26),
         St("hover", "heading:Component Showcase", 28),
         St("opacity0", "tooltip", 29),
         St("click", "button:Show Toast", 32),
         St("visible", "toast", 33),
         St("click", "select-trigger", 38),
         St("visible", "select-popover", 39),
         St("click", "heading:Component Showcase", 41),
         St("opacity0", "select-popover", 42),
         St("wait", "1000", 46)>>
    \o Epilogue("verification_final.png", 47, 49)

StepsLayout ==
    Prologue(6, 7, 13) \o Viewport("4000", 16)
    \o <<St("visible", "layout>aspect-ratio-16-9", 22),
         St("visible", "layout>separator", 25),
         St("visible", "layout>resizable", 28),
         St("visible", "layout>scroll-area", 31),
         St("visible", "layout>table", 34)>>
    \o Epilogue("verification_layout.png", 37, 39)

StepsStructure ==
    Prologue(6, 7, 13) \o Viewport("4000", 16)
    \o <<St("visible", "heading:Display", 19),
         St("visible", "heading:Buttons & Controls", 20),
         St("visible", "heading:Form Inputs", 21),
         St("visible", "heading:Overlays & Feedback", 22),
         St("visible", "heading:Layout & Structure", 23)>>
    \o Epilogue("verification_structure.png", 26, 28)

Steps(s) ==
    CASE s = "components"     -> StepsComponents
      [] s = "all_components" -> StepsAllComponents
      [] s = "display"        -> StepsDisplay
      [] s = "full_library"   -> StepsFullLibrary
      [] s = "final"          -> StepsFinal
      [] s = "final_v2"       -> StepsFinalV2
      [] s = "final_v3"       -> StepsFinalV3
      [] s = "layout"         -> StepsLayout
      [] s = "structure"      -> StepsStructure


\* Every script writing to the path of the final variants.
ArtifactPathShared(s) == "verification_final.png"

\* The artifact path a script passes to page.screenshot.
ArtifactPath(s) == Steps(s)[Len(Steps(s)) - 1].el

\* The sessions: one script invoked alone, or two different scripts invoked
\* one after the other.
Orders ==
    {<<a>> : a \in Scripts}
    \cup {q \in Scripts \X Scripts : q[1] # q[2]}

RECURSIVE Reversed(_)
Reversed(q) == IF q = <<>> THEN <<>> ELSE Append(Reversed(Tail(q)), Head(q))

---------------------------------------------------------------------------
(* The showcase document.                                                  *)

FreshDoc ==
    [loaded |-> FALSE, viewport |-> "default", dialog |-> FALSE,
     tipOpen |-> FALSE, tipOpacity |-> "0", tipHidden |-> TRUE,
     toast |-> "none",
     popOpen |-> FALSE, popOpacity |-> "0", popHidden |-> TRUE,
     label |-> "", touched |-> {}]

\* Closing a faded overlay starts at full opacity when the document animates
\* the change and ends at once when it does not.
ClosedOpacity(anim) == IF anim THEN "1" ELSE "0"

CloseTip(d, anim) ==
    IF d.tipOpen
    THEN [d EXCEPT !.tipOpen = FALSE, !.tipOpacity = ClosedOpacity(anim)]
    ELSE d

ClosePop(d, anim) ==
    IF d.popOpen
    THEN [d EXCEPT !.popOpen = FALSE, !.popOpacity = ClosedOpacity(anim)]
    ELSE d

\* The pointer moves onto el: the tooltip is open exactly while the pointer
\* is on its trigger.
PointerTo(d, el, anim) ==
    IF el = "button:Hover me"
    THEN [d EXCEPT !.tipOpen = TRUE, !.tipOpacity = "1", !.tipHidden = FALSE]
    ELSE CloseTip(d, anim)

\* The document's reaction to a click on el.
Clicked(d, el, anim) ==
    CASE el = "button:Open Dialog"  -> [d EXCEPT !.dialog = TRUE]
      [] el = "dialog>button:Close" -> [d EXCEPT !.dialog = FALSE]
      [] el = "button:Show Toast"   -> [d EXCEPT !.toast = "shown"]
      [] el = "select-trigger" ->
            [d EXCEPT !.popOpen = TRUE, !.popOpacity = "1", !.popHidden = FALSE]
      [] el = "select-popover>text:Apple" ->
            ClosePop([d EXCEPT !.label = "Apple"], anim)
      [] OTHER -> ClosePop(d, anim)

\* Elements that only exist inside an overlay can be acted on while it shows.
Actionable(d, el) ==
    CASE el = "dialog>button:Close"       -> d.dialog
      [] el = "select-popover>text:Apple" -> d.popOpen /\ ~d.popHidden
      [] OTHER -> TRUE

\* Elements whose state the model follows; whether any other element is
\* present in the document is not known.
Tracked ==
    {"dialog", "tooltip", "toast", "select-popover", "select-trigger>text:Apple"}

\* Visibility of el: in layout and not hidden.  Opacity plays no part.
Shown(d, el) ==
    CASE el = "dialog"                      -> d.dialog
      [] el = "dialog>heading:Dialog Title" -> d.dialog
      [] el = "tooltip"                     -> ~d.tipHidden
      [] el = "toast"                       -> d.toast = "shown"
      [] el = "select-popover"              -> ~d.popHidden
      [] el = "select-trigger>text:Apple"   -> d.label = "Apple"
      [] OTHER -> TRUE

Opacity(d, el) ==
    CASE el = "tooltip"        -> d.tipOpacity
      [] el = "select-popover" -> d.popOpacity
      [] OTHER -> "1"

FadeStep(o) == IF o = "1" THEN "0.5" ELSE "0"


---------------------------------------------------------------------------
(* The statements of a script.                                             *)

ActOps == {"launch", "new_page", "goto", "viewport", "click", "hover", "wait"}
PointerOps == {"click", "hover"}
\* Calls that raise when the document or the element is not there.
RaisingOps == {"goto", "click", "hover"}
AssertOps == {"visible", "not_visible", "opacity0"}

\* A page that shows the document the previous script left behind.
NewPageShared(prev) == prev

\* browser.new_page(): a page of its own, with a document of its own.
NewPage(prev) == FreshDoc

Touch(d, s) == [d EXCEPT !.touched = @ \cup {s}]

\* An opacity assertion that sets the style it is to compare.
DocAfterForcing(st, d, s, anim) ==
    CASE st.op = "new_page" -> NewPage(d)
      [] st.op = "goto"     -> Touch([d EXCEPT !.loaded = TRUE], s)
      [] st.op = "viewport" -> Touch([d EXCEPT !.viewport = st.el], s)
      [] st.op = "hover"    -> Touch(PointerTo(d, st.el, anim), s)
      [] st.op = "click"    ->
            Touch(Clicked(PointerTo(d, st.el, anim), st.el, anim), s)
      [] st.op = "opacity0" /\ st.el = "tooltip" -> [d EXCEPT !.tipOpacity = "0"]
      [] st.op = "opacity0" /\ st.el # "tooltip" -> [d EXCEPT !.popOpacity = "0"]
      [] OTHER -> d

\* The document after statement st of script s has completed.
DocAfter(st, d, s, anim) ==
    CASE st.op = "new_page" -> NewPage(d)
      [] st.op = "goto"     -> Touch([d EXCEPT !.loaded = TRUE], s)
      [] st.op = "viewport" -> Touch([d EXCEPT !.viewport = st.el], s)
      [] st.op = "hover"    -> Touch(PointerTo(d, st.el, anim), s)
      [] st.op = "click"    ->
            Touch(Clicked(PointerTo(d, st.el, anim), st.el, anim), s)
      [] OTHER -> d

\* An opacity check that accepts any value below full opacity.
HoldsLoose(st, d) ==
    CASE st.op = "visible"     -> Shown(d, st.el)
      [] st.op = "not_visible" -> ~Shown(d, st.el)
      [] st.op = "opacity0"    -> Opacity(d, st.el) # "1"

\* The condition an expect(...) assertion polls for.
Holds(st, d) ==
    CASE st.op = "visible"     -> Shown(d, st.el)
      [] st.op = "not_visible" -> ~Shown(d, st.el)
      [] st.op = "opacity0"    -> Opacity(d, st.el) = "0"

\* What page.screenshot(full_page=True) records of the document.
Capture(s, d) ==
    [by |-> s, touched |-> d.touched, loaded |-> d.loaded,
     viewport |-> d.viewport, dialog |-> d.dialog, tipOpen |-> d.tipOpen,
     popOpen |-> d.popOpen, label |-> d.label]

\* A screenshot taken without writing it to the path.
SaveAsNothing(fs, path, c) == fs

\* page.screenshot(path=...) creates or overwrites the file at path.
SaveAs(fs, path, c) ==
    [p \in DOMAIN fs \cup {path} |-> IF p = path THEN c ELSE fs[p]]

\* An exception that is caught and ignored leaves the script running.
AfterRaiseSwallowed == "running"

\* No script catches an exception: the first one raised ends main().
AfterRaise == "failed"

\* A driver whose stop leaves the browsers it launched open.
DriverStopLeaks(b) == b

\* Leaving the `with sync_playwright()` block stops the driver, and with it
\* every browser the driver launched.
DriverStop(b) == 0

\* A main() that reports the exception and returns normally.
ExitStatusAlwaysZero(f) == "0"

\* The interpreter exits with 0 after main() returns and with 1 after an
\* uncaught exception.
ExitStatus(f) == IF f = 0 THEN "0" ELSE "1"

Script == order[idx]
Prog == Steps(Script)
Cur == Prog[pc]
AtStatement == status = "running" /\ pc <= Len(Prog)

Session == <<animated, order, phase, idx, filesFirst, capturedFirst>>
Disk == <<written, files, captured>>
Process == <<playwright, exitCode, diag>>

Raise ==
    /\ status' = AfterRaise
    /\ failedAt' = pc
    /\ UNCHANGED <<pc, polls, done, browser, doc, okPolls>>
    /\ UNCHANGED <<Session, Disk, Process>>

\* with sync_playwright() as p:
Enter ==
    /\ status = "idle"
    /\ status' = "running"
    /\ playwright' = TRUE
    /\ UNCHANGED <<pc, polls, done, failedAt, browser, doc, okPolls, exitCode, diag>>
    /\ UNCHANGED <<Session, Disk>>

\* launch, new_page, goto, set_viewport_size, click, hover, wait_for_timeout
Act ==
    /\ AtStatement
    /\ Cur.op \in ActOps
    /\ Cur.op \in PointerOps => Actionable(doc, Cur.el)
    /\ doc' = DocAfter(Cur, doc, Script, animated)
    /\ browser' = IF Cur.op = "launch" THEN browser + 1 ELSE browser
    /\ pc' = pc + 1
    /\ done' = Append(done, Cur.line)
    /\ UNCHANGED <<status, polls, failedAt, okPolls>>
    /\ UNCHANGED <<Session, Disk, Process>>

\* NavigationError, LocatorNotFound, InteractionError
ActFail ==
    /\ AtStatement
    /\ Cur.op \in RaisingOps
    /\ Raise

\* a poll of expect(...) finds the condition to hold
AssertOk ==
    /\ AtStatement
    /\ Cur.op \in AssertOps
    /\ Holds(Cur, doc)
    /\ doc' = DocAfter(Cur, doc, Script, animated)
    /\ pc' = pc + 1
    /\ polls' = 0
    /\ okPolls' =
          IF Cur.op = "opacity0"
          THEN okPolls \cup {[line |-> Cur.line, polls |-> polls,
                              opacity |-> Opacity(doc, Cur.el)]}
          ELSE okPolls
    /\ done' = Append(done, Cur.line)
    /\ UNCHANGED <<status, failedAt, browser>>
    /\ UNCHANGED <<Session, Disk, Process>>

\* a poll finds it not to hold and the assertion polls again
AssertRetry ==
    /\ AtStatement
    /\ Cur.op \in AssertOps
    /\ ~Holds(Cur, doc)
    /\ polls < MaxPolls
    /\ polls' = polls + 1
    /\ doc' = DocAfter(Cur, doc, Script, animated)
    /\ UNCHANGED <<status, pc, done, failedAt, browser, okPolls>>
    /\ UNCHANGED <<Session, Disk, Process>>

\* AssertionTimeout: the condition never held within the timeout
AssertTimeout ==
    /\ AtStatement
    /\ Cur.op \in AssertOps
    /\ ~Holds(Cur, doc)
    /\ polls = MaxPolls
    /\ Raise

\* LocatorNotFound: the document has no such element
AssertMissing ==
    /\ AtStatement
    /\ Cur.op \in AssertOps
    /\ Cur.el \notin Tracked
    /\ Raise

\* page.screenshot(path=..., full_page=True)
Screenshot ==
    /\ AtStatement
    /\ Cur.op = "screenshot"
    /\ files' = SaveAs(files, ArtifactPath(Script), Capture(Script, doc))
    /\ written' = Append(written, [path |-> ArtifactPath(Script), at |-> pc])
    /\ captured' = captured \cup {Script}
    /\ pc' = pc + 1
    /\ done' = Append(done, Cur.line)
    /\ UNCHANGED <<status, polls, failedAt, browser, doc, okPolls>>
    /\ UNCHANGED <<Session, Process>>

\* browser.close()
Close ==
    /\ AtStatement
    /\ Cur.op = "close"
    /\ browser' = browser - 1
    /\ pc' = pc + 1
    /\ done' = Append(done, Cur.line)
    /\ UNCHANGED <<status, polls, failedAt, doc, okPolls>>
    /\ UNCHANGED <<Session, Disk, Process>>

\* the `with` block is left, by falling off its end or by the exception
WithExit ==
    /\ \/ status = "running" /\ pc = Len(Prog) + 1
       \/ status = "failed"
    /\ status' = "released"
    /\ playwright' = FALSE
    /\ browser' = DriverStop(browser)
    /\ UNCHANGED <<pc, polls, done, failedAt, doc, okPolls, exitCode, diag>>
    /\ UNCHANGED <<Session, Disk>>

\* the interpreter exits; an uncaught exception prints a traceback that
\* names the line of the statement that raised
ProcessExit ==
    /\ status = "released"
    /\ status' = "exited"
    /\ exitCode' = ExitStatus(failedAt)
    /\ diag' = IF failedAt = 0 THEN 0 ELSE Prog[failedAt].line
    /\ UNCHANGED <<pc, polls, done, failedAt, playwright, browser, doc, okPolls>>
    /\ UNCHANGED <<Session, Disk>>

ResetRun ==
    /\ status' = "idle"
    /\ pc' = 1
    /\ polls' = 0
    /\ done' = <<>>
    /\ failedAt' = 0
    /\ written' = <<>>
    /\ exitCode' = "none"
    /\ diag' = 0
    /\ okPolls' = {}
    /\ UNCHANGED <<animated, playwright, browser, doc>>

\* the next script of the session is invoked
NextScenario ==
    /\ status = "exited"
    /\ idx < Len(order)
    /\ idx' = idx + 1
    /\ ResetRun
    /\ UNCHANGED <<order, phase, files, captured, filesFirst, capturedFirst>>

\* the same two scripts are invoked again in the other order, the artifact
\* directory emptied first
Reverse ==
    /\ status = "exited"
    /\ idx = Len(order)
    /\ Len(order) = 2
    /\ phase = 1
    /\ phase' = 2
    /\ order' = Reversed(order)
    /\ idx' = 1
    /\ filesFirst' = files
    /\ capturedFirst' = captured
    /\ files' = <<>>
    /\ captured' = {}
    /\ ResetRun

---------------------------------------------------------------------------
(* The browser renders while the script runs.                              *)

Rendering == AtStatement /\ browser > 0

Script_vars ==
    <<status, pc, polls, done, failedAt, browser, okPolls, Session, Disk, Process>>

FadeTip ==
    /\ Rendering
    /\ ~doc.tipOpen /\ doc.tipOpacity # "0"
    /\ doc' = [doc EXCEPT !.tipOpacity = FadeStep(@)]
    /\ UNCHANGED Script_vars

FadePop ==
    /\ Rendering
    /\ ~doc.popOpen /\ doc.popOpacity # "0"
    /\ doc' = [doc EXCEPT !.popOpacity = FadeStep(@)]
    /\ UNCHANGED Script_vars

HideTip ==
    /\ Rendering
    /\ ~doc.tipOpen /\ ~doc.tipHidden
    /\ doc' = [doc EXCEPT !.tipHidden = TRUE]
    /\ UNCHANGED Script_vars

HidePop ==
    /\ Rendering
    /\ ~doc.popOpen /\ ~doc.popHidden
    /\ doc' = [doc EXCEPT !.popHidden = TRUE]
    /\ UNCHANGED Script_vars

ToastExpire ==
    /\ Rendering
    /\ doc.toast = "shown"
    /\ doc' = [doc EXCEPT !.toast = "gone"]
    /\ UNCHANGED Script_vars

---------------------------------------------------------------------------

Init ==
    /\ animated \in BOOLEAN
    /\ order \in Orders
    /\ phase = 1
    /\ idx = 1
    /\ status = "idle"
    /\ pc = 1
    /\ polls = 0
    /\ done = <<>>
    /\ failedAt = 0
    /\ playwright = FALSE
    /\ browser = 0
    /\ doc = FreshDoc
    /\ written = <<>>
    /\ files = <<>>
    /\ exitCode = "none"
    /\ diag = 0
    /\ okPolls = {}
    /\ captured = {}
    /\ filesFirst = <<>>
    /\ capturedFirst = {}

Next ==
    \/ Enter
    \/ Act
    \/ ActFail
    \/ AssertOk
    \/ AssertRetry
    \/ AssertTimeout
    \/ AssertMissing
    \/ Screenshot
    \/ Close
    \/ WithExit
    \/ ProcessExit
    \/ NextScenario
    \/ FadeTip
    \/ FadePop
    \/ HideTip
    \/ HidePop
    \/ ToastExpire

Spec == Init /\ [][Next]_vars

\* Every call of a script returns or raises within its timeout, and the
\* browser keeps rendering: no enabled step is postponed forever.
FairSpec == Spec /\ WF_vars(Next)

OrderNext == Next \/ Reverse

OrderSpec == Init /\ [][OrderNext]_vars


---------------------------------------------------------------------------
(* Properties.                                                             *)

\* The statements of a script before its screenshot: the steps of the scenario.
NSteps == Len(Prog) - 2
ShotAt == Len(Prog) - 1
LinesUpTo(n) == [i \in 1..n |-> Prog[i].line]

\* C1: if all N steps of a scenario succeed, exactly one artifact file is
\* written during its run, it is written after the last step, its name is
\* the one fixed for the scenario, and no other file is written.
C1_OneArtifactPerSuccessfulRun ==
    /\ Len(written) <= 1
    /\ DOMAIN files \subseteq {ArtifactPath(s) : s \in captured}
    /\ (failedAt = 0 /\ pc <= ShotAt) => written = <<>>
    /\ (failedAt = 0 /\ pc > ShotAt) =>
          /\ written = <<[path |-> ArtifactPath(Script), at |-> ShotAt]>>
          /\ SubSeq(done, 1, NSteps) = LinesUpTo(NSteps)
          /\ ArtifactPath(Script) \in DOMAIN files
          /\ files[ArtifactPath(Script)].by = Script

C1_Witness ==
    /\ status = "exited"
    /\ failedAt = 0
    /\ Len(written) = 1
    /\ NSteps > 10

\* C2: if step i fails, the scenario aborts at step i and no artifact is
\* written for it: the screenshot is never reached on a run in which a
\* step failed.
C2_NoArtifactAfterFailure ==
    failedAt # 0 =>
        /\ pc = failedAt
        /\ failedAt <= NSteps
        /\ done = LinesUpTo(failedAt - 1)
        /\ written = <<>>
        /\ Script \notin captured
        /\ \A p \in DOMAIN files : files[p].by # Script

C2_Witness ==
    /\ status = "exited"
    /\ failedAt > 4
    /\ Prog[failedAt].op = "opacity0"
    /\ written = <<>>

\* C3: the browser a scenario opened is always released: whether the run
\* captures or fails, the released state is eventually reached with no
\* browser left open, as before the run.
C3_AlwaysReleased ==
    /\ [](status \in {"released", "exited"} => (browser = 0 /\ ~playwright))
    /\ [](status = "running" => <>(status = "released"))
    /\ [](browser > 0 => <>(browser = 0))

C3_Witness ==
    /\ status = "released"
    /\ failedAt > 4
    /\ browser = 0
    /\ ~playwright

\* C6: a scenario advances one statement at a time in program order, takes
\* its screenshot only after its last step, and executes nothing more once
\* a step has failed; it is not run again.
C6_StateMachine ==
    /\ [](done = LinesUpTo(pc - 1))
    /\ [](written # <<>> => pc > ShotAt)
    /\ [][(idx' = idx /\ phase' = phase) =>
            /\ pc' \in {pc, pc + 1}
            /\ pc' = pc + 1 => (status = "running" /\ failedAt = 0)
            /\ failedAt # 0 =>
                  /\ pc' = pc /\ done' = done /\ failedAt' = failedAt
                  /\ status' \in {"failed", "released", "exited"}
            /\ status' # status =>
                  <<status, status'>> \in
                      {<<"idle", "running">>, <<"running", "failed">>,
                       <<"running", "released">>, <<"failed", "released">>,
                       <<"released", "exited">>}]_vars
    /\ [][(idx' # idx \/ phase' # phase) =>
            (status = "exited" /\ status' = "idle" /\ pc' = 1 /\ done' = <<>>)]_vars

C6_Witness ==
    /\ idx = 2
    /\ order[1] \in captured
    /\ status = "exited"
    /\ failedAt > 4
    /\ done = LinesUpTo(failedAt - 1)

\* C7: the process exits with the success code exactly when every step
\* completed and the artifact was captured; when a step fails it exits
\* with a non-zero code and its diagnostic names the failing step.
C7_ExitCode ==
    status = "exited" =>
        /\ exitCode = "0" <=>
              (failedAt = 0 /\ pc = Len(Prog) + 1 /\ Script \in captured)
        /\ failedAt # 0 =>
              (exitCode = "1" /\ diag = Prog[failedAt].line /\ pc = failedAt)
        /\ exitCode \in {"0", "1"}

C7_Witness ==
    /\ status = "exited"
    /\ exitCode = "1"
    /\ failedAt > 4
    /\ diag = Prog[failedAt].line


\* The successive versions of the full-library check.
FullLibraryVariants == {"full_library", "final", "final_v2", "final_v3"}

\* C4 as claimed: no two distinct scripts write to the same artifact path:
\* the artifact of every script that took its screenshot is still the one
\* it wrote, not overwritten by another script of the session.
C4_UniquePathPerScript ==
    \A s \in captured : files[ArtifactPath(s)].by = s

\* C4 as amended: every script writes to one fixed path; the four variants
\* of the full-library check share verification_final.png, where the one
\* run last overwrites the others; any other two scripts write to
\* different paths and never overwrite each other's artifact.
C4_UniquePathPerFamily ==
    /\ \A a \in Scripts : \A b \in Scripts \ {a} :
          ArtifactPath(a) = ArtifactPath(b) =>
              /\ {a, b} \subseteq FullLibraryVariants
              /\ ArtifactPath(a) = "verification_final.png"
    /\ FullLibraryVariants = {s \in Scripts : ArtifactPath(s) = "verification_final.png"}
    /\ \A p \in DOMAIN files : ArtifactPath(files[p].by) = p
    /\ \A s \in captured :
          \/ files[ArtifactPath(s)].by = s
          \/ /\ s \in FullLibraryVariants
             /\ files[ArtifactPath(s)].by \in FullLibraryVariants \cap captured

C4_Witness ==
    /\ Len(order) = 2
    /\ idx = 2
    /\ status = "exited"
    /\ captured = {order[1], order[2]}
    /\ ArtifactPath(order[1]) = ArtifactPath(order[2])
    /\ DOMAIN files = {"verification_final.png"}
    /\ files["verification_final.png"].by = order[2]

\* Both orders of a pair of scripts have been run, with the same scripts
\* reaching their screenshot in each.
BothOrdersRun ==
    /\ phase = 2
    /\ idx = 2
    /\ status = "exited"
    /\ captured = capturedFirst

C8_NeverOnFirstPoll ==
    (animated /\ Script = "final_v3") =>
        \A r \in okPolls : r.line = 29 => (r.polls > 0 /\ r.opacity = "0")

\* C8 as amended: with a fade-out of duration > 0, the opacity assertion on
\* the tooltip succeeds only at a poll at which the opacity is "0", that
\* is, after the transition has completed, and never on an intermediate
\* value; a poll taken while the tooltip still fades does not succeed.  The
\* first poll succeeds when the transition has completed before it.
C8_OnlyAfterTransition ==
    (animated /\ Script = "final_v3") =>
        /\ \A r \in okPolls : r.line = 29 => r.opacity = "0"
        /\ \A i \in 1..(pc - 1) :
              Prog[i].op = "opacity0" =>
                  \E r \in okPolls : r.line = Prog[i].line /\ r.polls \in 0..MaxPolls

C8_Witness ==
    /\ animated
    /\ Script = "final_v3"
    /\ \E r \in okPolls : r.line = 29 /\ r.polls > 0 /\ r.opacity = "0"

\* A statement of the script, not the browser, takes this step.
ScriptStep == pc' # pc \/ polls' # polls \/ status' # status

====
